---------------------------- MODULE Spec2Model ----------------------------
(***************************************************************************)
(* rdis: a single-node in-memory key-value server speaking RESP.           *)
(*                                                                         *)
(* Byte strings (Vec<u8>, &[u8], BytesMut) are TLA+ strings; a frame       *)
(* (enum RESP) is a record with the fields tag, s, kind, elems.  A signed  *)
(* 64-bit integer is kept as its canonical decimal text, and arithmetic on *)
(* it is done on the decimal digits, so that the 64-bit limits are the     *)
(* real ones.                                                              *)
(***************************************************************************)
EXTENDS Integers, Sequences, FiniteSets, TLC

VARIABLES
    data,             \* RedisEngine.data : RedisData
    overflow_checks,  \* build profile: TRUE = debug (overflow panics), FALSE = release (wraps)
    eng_pc,           \* position of RedisEngine::start_loop: "recv", "exec", "panicked"
    eng_cur,          \* the (req, channel) pair being served
    eng_t,            \* t = current_time() of the pair being served
    eng_resp,         \* the resp vector under construction
    queue,            \* the mpsc channel: (ClientReq, oneshot::Sender) pairs in flight
    rx,               \* per session: its oneshot receiver
    pc,               \* per session: position of ClientConnection::start_loop
    sock,             \* per session: bytes the peer has written, not yet read
    peer_closed,      \* per session: the peer has closed its end
    buff,             \* per session: RedisCmd.buff
    pipelined_request,\* per session: RedisCmd.pipelined_request
    command,          \* per session: the ClientReq returned by read_async
    resp,             \* per session: the reply taken from the oneshot receiver
    writer,           \* per session: RedisCmd.writer (BufWriter) and the bytes it has put on the wire
    suite,            \* the command family the engine driver draws from
    senders,          \* live Sender handles of the mpsc channel (the shared RedisEngineApi)
    call,             \* the last call a unit driver made, with what it returned
    alloc_fails,      \* host: the allocator refuses a request it cannot back (no overcommit)
    submitted,        \* history, per session: the bundles it has sent to the engine
    wrote,            \* history, per session: the frames it has passed to write_async
    inputs,           \* history, per session: the peer's writes
    executed          \* history: one entry per handle_request call made

engine_vars == <<data, overflow_checks, eng_pc, eng_cur, eng_t, eng_resp, executed>>
session_vars == <<pc, sock, peer_closed, buff, pipelined_request, command, resp, writer,
                  submitted, wrote, inputs>>
driver_vars == <<suite, senders, call, alloc_fails>>
vars == <<engine_vars, queue, rx, session_vars, driver_vars>>

-----------------------------------------------------------------------------
(* Bounds *)

MaxCmds == 4          \* handle_request calls in the engine-only specification
MaxTime == 1          \* current_time() ranges over 0..MaxTime
NumSessions == 2      \* concurrent connections
MaxWrites == 2        \* writes the peers make, over all connections
MaxBundles == 2       \* bundles one session sends to the engine
MaxList == 2          \* elements of one list when RedisData is driven directly
MaxBatch == 3         \* frames written one after the other on one writer

Times == 0..MaxTime
Sessions == 1..NumSessions

\* capacity of the request channel (mpsc::channel(4096))
ChannelCapacity == 4096

-----------------------------------------------------------------------------
(* enum RESP *)

SimpleString(b) == [tag |-> "SimpleString", s |-> b, kind |-> "", elems |-> <<>>]
Error(k, m)     == [tag |-> "Error", s |-> m, kind |-> k, elems |-> <<>>]
Integer(dec)    == [tag |-> "Integer", s |-> dec, kind |-> "", elems |-> <<>>]
BulkString(b)   == [tag |-> "BulkString", s |-> b, kind |-> "", elems |-> <<>>]
Array(v)        == [tag |-> "Array", s |-> "", kind |-> "", elems |-> v]
Null            == [tag |-> "Null", s |-> "", kind |-> "", elems |-> <<>>]

(* enum ClientReq *)
Single(r)    == [kind |-> "Single", frames |-> <<r>>]
Pipeline(rs) == [kind |-> "Pipeline", frames |-> rs]

-----------------------------------------------------------------------------
(* Decimal text <-> i64, as str::parse::<i64>() and i64::to_string() do it *)

Digits == "0123456789"
I64Max == "9223372036854775807"
I64MinMag == "9223372036854775808"

DigitVal(c) == CHOOSE i \in 0..9 : SubSeq(Digits, i + 1, i + 1) = c
DigitChar(i) == SubSeq(Digits, i + 1, i + 1)
CharAt(b, i) == SubSeq(b, i, i)
AllDigits(b) == \A i \in 1..Len(b) : \E j \in 1..10 : CharAt(Digits, j) = CharAt(b, i)

RECURSIVE StripZeros(_)
StripZeros(b) ==
    IF Len(b) > 1 /\ Head(b) = "0" THEN StripZeros(Tail(b)) ELSE b

\* a <= b for two digit strings without leading zeros
RECURSIVE MagLeq(_, _)
MagLeq(a, b) ==
    IF Len(a) # Len(b) THEN Len(a) < Len(b)
    ELSE IF a = "" THEN TRUE
    ELSE IF Head(a) # Head(b) THEN DigitVal(Head(a)) < DigitVal(Head(b))
    ELSE MagLeq(Tail(a), Tail(b))

RECURSIVE MagAddOne(_)
MagAddOne(b) ==
    IF b = "" THEN "1"
    ELSE LET init == SubSeq(b, 1, Len(b) - 1)
             last == CharAt(b, Len(b))
         IN  IF last = "9" THEN MagAddOne(init) \o "0"
             ELSE init \o DigitChar(DigitVal(last) + 1)

\* b - 1 for a digit string b >= 1
RECURSIVE MagSubOne(_)
MagSubOne(b) ==
    LET init == SubSeq(b, 1, Len(b) - 1)
        last == CharAt(b, Len(b))
    IN  IF last = "0" THEN MagSubOne(init) \o "9"
        ELSE init \o DigitChar(DigitVal(last) - 1)

\* <i64 as FromStr>::from_str: optional sign, at least one digit, digits
\* only, value within the 64-bit range.
ParseI64(b) ==
    LET signed == b # "" /\ Head(b) \in {"+", "-"}
        neg    == b # "" /\ Head(b) = "-"
        digs   == IF signed THEN Tail(b) ELSE b
        mag    == StripZeros(digs)
        ok     == /\ digs # ""
                  /\ AllDigits(digs)
                  /\ MagLeq(mag, IF neg THEN I64MinMag ELSE I64Max)
    IN  [ok |-> ok, neg |-> ok /\ neg /\ mag # "0", mag |-> IF ok THEN mag ELSE ""]

\* i64::to_string
I64ToString(neg, mag) == IF neg /\ mag # "0" THEN "-" \o mag ELSE mag

\* i + 1 on i64: [overflow, text of the wrapped sum]
I64AddOne(i) ==
    IF ~i.neg /\ i.mag = I64Max
    THEN [overflow |-> TRUE, s |-> "-" \o I64MinMag]
    ELSE IF i.neg
    THEN [overflow |-> FALSE, s |-> I64ToString(TRUE, StripZeros(MagSubOne(i.mag)))]
    ELSE [overflow |-> FALSE, s |-> I64ToString(FALSE, MagAddOne(i.mag))]

-----------------------------------------------------------------------------
(* Maps (HashMap, BTreeMap) are functions on the set of their keys *)

EmptyMap == [x \in {} |-> ""]
MapInsert(m, k, v) == [x \in (DOMAIN m) \cup {k} |-> IF x = k THEN v ELSE m[x]]
MapRemoveAll(m, ks) == [x \in (DOMAIN m) \ ks |-> m[x]]

None == [some |-> FALSE, v |-> ""]
Some(x) == [some |-> TRUE, v |-> x]

-----------------------------------------------------------------------------
(* struct RedisData *)

\* RedisData::new.  eviction_root: whether the BTreeMap has allocated its
\* root node (BTreeMap::range only inspects its bounds when it has one).
RedisData_new ==
    [single_map |-> EmptyMap, list_map |-> EmptyMap, eviction |-> EmptyMap,
     eviction_root |-> FALSE, last_evicted_t |-> 0]

\* RedisData::evict_if_needed.  BTreeMap::range(a..b) panics when a > b.
evict_if_needed(d, t) ==
    LET to_remove == {k \in DOMAIN d.eviction : d.last_evicted_t <= k /\ k < t}
        keys      == UNION {d.eviction[k] : k \in to_remove}
    IN  IF d.eviction_root /\ d.last_evicted_t > t
        THEN [panic |-> TRUE, data |-> d]
        ELSE [panic |-> FALSE,
              data  |-> [d EXCEPT !.last_evicted_t = t,
                                  !.eviction = MapRemoveAll(d.eviction, to_remove),
                                  !.single_map = MapRemoveAll(d.single_map, keys)]]

\* RedisData::insert_eviction
insert_eviction(d, k, t) ==
    LET old == IF t \in DOMAIN d.eviction THEN d.eviction[t] ELSE {}
    IN  [d EXCEPT !.eviction = MapInsert(d.eviction, t, old \cup {k}),
                  !.eviction_root = TRUE]

\* set that keeps the value of a key already present
set_keep_first(d, k, v, evict_at) ==
    IF k \in DOMAIN d.single_map THEN d
    ELSE [d EXCEPT !.single_map = MapInsert(d.single_map, k, v)]

\* RedisData::set (evict_at is an Option<u64>)
set(d, k, v, evict_at) ==
    LET d1 == [d EXCEPT !.single_map = MapInsert(d.single_map, k, v)]
    IN  IF evict_at.some THEN insert_eviction(d1, k, evict_at.v) ELSE d1

\* RedisData::get
get(d, k, t) ==
    LET e == evict_if_needed(d, t)
    IN  [panic |-> e.panic, data |-> e.data,
         res |-> IF ~e.panic /\ k \in DOMAIN e.data.single_map
                 THEN Some(e.data.single_map[k]) ELSE None]

\* ParseIntError as Display
ParseIntErrorText(b) ==
    LET digs == IF b # "" /\ Head(b) \in {"+", "-"} THEN Tail(b) ELSE b
    IN  IF b = "" THEN "cannot parse integer from empty string"
        ELSE IF digs = "" \/ ~AllDigits(digs) THEN "invalid digit found in string"
        ELSE IF Head(b) = "-" THEN "number too small to fit in target type"
        ELSE "number too large to fit in target type"

\* RedisData::incr.  i_decimal + 1 panics on overflow when the build has
\* overflow checks and wraps otherwise.
incr(d, k, t, checks) ==
    LET e == evict_if_needed(d, t)
    IN  IF e.panic THEN [panic |-> TRUE, data |-> e.data, ok |-> FALSE, res |-> None, err |-> ""]
        ELSE IF k \notin DOMAIN e.data.single_map
        THEN [panic |-> FALSE, data |-> e.data, ok |-> TRUE, res |-> None, err |-> ""]
        ELSE LET i_decimal == ParseI64(e.data.single_map[k])
             IN  IF ~i_decimal.ok
                 THEN [panic |-> FALSE, data |-> e.data, ok |-> FALSE, res |-> None,
                       err |-> ParseIntErrorText(e.data.single_map[k])]
                 ELSE LET sum == I64AddOne(i_decimal)
                      IN  [panic |-> sum.overflow /\ checks, data |-> e.data,
                           ok |-> TRUE, res |-> Some(sum.s), err |-> ""]

\* VecDeque of the key, created when absent (entry(k).or_insert)
ListOf(d, k) == IF k \in DOMAIN d.list_map THEN d.list_map[k] ELSE <<>>

\* RedisData::l_push
l_push(d, k, v, evict_at) ==
    LET d1 == IF evict_at.some THEN insert_eviction(d, k, evict_at.v) ELSE d
    IN  [d1 EXCEPT !.list_map = MapInsert(d1.list_map, k, <<v>> \o ListOf(d1, k))]

\* RedisData::r_push
r_push(d, k, v, evict_at) ==
    LET d1 == IF evict_at.some THEN insert_eviction(d, k, evict_at.v) ELSE d
    IN  [d1 EXCEPT !.list_map = MapInsert(d1.list_map, k, Append(ListOf(d1, k), v))]

\* l_pop that takes the element at the back
l_pop_back(d, k) ==
    IF k \in DOMAIN d.list_map /\ d.list_map[k] # <<>>
    THEN LET l == d.list_map[k]
         IN  [data |-> [d EXCEPT !.list_map = MapInsert(d.list_map, k, SubSeq(l, 1, Len(l) - 1))],
              res  |-> Some(l[Len(l)])]
    ELSE [data |-> d, res |-> None]

\* RedisData::l_pop
l_pop(d, k) ==
    IF k \in DOMAIN d.list_map /\ d.list_map[k] # <<>>
    THEN [data |-> [d EXCEPT !.list_map = MapInsert(d.list_map, k, Tail(d.list_map[k]))],
          res  |-> Some(Head(d.list_map[k]))]
    ELSE [data |-> d, res |-> None]

\* RedisData::r_pop
r_pop(d, k) ==
    IF k \in DOMAIN d.list_map /\ d.list_map[k] # <<>>
    THEN LET l == d.list_map[k]
         IN  [data |-> [d EXCEPT !.list_map = MapInsert(d.list_map, k, SubSeq(l, 1, Len(l) - 1))],
              res  |-> Some(l[Len(l)])]
    ELSE [data |-> d, res |-> None]

-----------------------------------------------------------------------------
(* impl RedisEngine *)

\* RedisEngine::error_resp
error_resp == Error("Error", "too many arguments")

\* RedisEngine::ok
ok == SimpleString("OK")

Ret(d, r) == [panic |-> FALSE, data |-> d, resp |-> r]
Panic(d)  == [panic |-> TRUE, data |-> d, resp |-> Null]
AllBulk(commands) == \A i \in 1..Len(commands) : commands[i].tag = "BulkString"

\* RedisEngine::handle_request, the arm Array(commands)
handle_array(d, commands, t, checks) ==
    IF Len(commands) = 0 THEN Ret(d, Error("todo", "empty command"))
    ELSE IF Len(commands) = 1 /\ AllBulk(commands) THEN
        CASE commands[1].s = "PING"    -> Ret(d, SimpleString("PONG"))
          [] commands[1].s = "COMMAND" -> Ret(d, SimpleString("OK"))
          [] OTHER -> Ret(d, error_resp)
    ELSE IF Len(commands) = 2 /\ AllBulk(commands) THEN
        LET cmd == commands[1].s
            k   == commands[2].s
        IN  CASE cmd = "GET" ->
                   LET g == get(d, k, t)
                   IN  IF g.panic THEN Panic(g.data)
                       ELSE Ret(g.data, IF g.res.some THEN BulkString(g.res.v) ELSE Null)
              [] cmd = "INCR" ->
                   LET i == incr(d, k, t, checks)
                   IN  IF i.panic THEN Panic(i.data)
                       ELSE IF i.ok
                       THEN Ret(i.data, IF i.res.some THEN SimpleString(i.res.v) ELSE Null)
                       ELSE Ret(i.data, Error("WRONG_TYPE", i.err))
              [] cmd = "LPOP" ->
                   LET p == l_pop(d, k)
                   IN  Ret(p.data, IF p.res.some THEN BulkString(p.res.v) ELSE Null)
              [] cmd = "RPOP" ->
                   LET p == r_pop(d, k)
                   IN  Ret(p.data, IF p.res.some THEN BulkString(p.res.v) ELSE Null)
              [] OTHER -> Ret(d, error_resp)
    ELSE IF Len(commands) = 3 /\ AllBulk(commands) THEN
        LET cmd == commands[1].s
            k   == commands[2].s
            v   == commands[3].s
        IN  CASE cmd = "SET"   -> Ret(set(d, k, v, None), ok)
              [] cmd = "LPUSH" -> Ret(l_push(d, k, v, None), ok)
              [] cmd = "RPUSH" -> Ret(r_push(d, k, v, None), ok)
              [] OTHER -> Ret(d, error_resp)
    ELSE Ret(d, error_resp)

\* any other frame dispatched again as an array that does not hold it
handle_request_unwrapped(d, req, t, checks) ==
    IF req.tag = "Array" THEN handle_array(d, req.elems, t, checks)
    ELSE handle_array(d, <<>>, t, checks)

\* RedisEngine::handle_request: any other frame is dispatched again as the
\* one-element array holding it.
RECURSIVE handle_request(_, _, _, _)
handle_request(d, req, t, checks) ==
    IF req.tag = "Array" THEN handle_array(d, req.elems, t, checks)
    ELSE handle_request(d, Array(<<req>>), t, checks)

-----------------------------------------------------------------------------
(* u64 arithmetic on decimal text, for the decoder's numbers *)

U64Max == "18446744073709551615"
TwoTo64 == "18446744073709551616"

RECURSIVE Zeros(_)
Zeros(n) == IF n <= 0 THEN "" ELSE "0" \o Zeros(n - 1)

\* a - b digit by digit, for digit strings of equal length
RECURSIVE SubDigits(_, _, _)
SubDigits(a, b, borrow) ==
    IF a = "" THEN ""
    ELSE LET x == DigitVal(CharAt(a, Len(a))) - DigitVal(CharAt(b, Len(b))) - borrow
         IN  SubDigits(SubSeq(a, 1, Len(a) - 1), SubSeq(b, 1, Len(b) - 1),
                       IF x < 0 THEN 1 ELSE 0)
             \o DigitChar(IF x < 0 THEN x + 10 ELSE x)

\* a - b for digit strings without leading zeros, a >= b
MagSub(a, b) == StripZeros(SubDigits(a, Zeros(Len(a) - Len(b)) \o b, 0))

\* a mod 2^64 for a < 10 * 2^64
RECURSIVE ModTwoTo64(_)
ModTwoTo64(a) == IF MagLeq(a, U64Max) THEN a ELSE ModTwoTo64(MagSub(a, TwoTo64))

\* the value of a digit string modulo 2^64
RECURSIVE WrapU64(_, _)
WrapU64(acc, bytes) ==
    IF bytes = "" THEN acc
    ELSE LET nxt == ModTwoTo64(StripZeros(acc \o Head(bytes)))
         IN  IF Len(nxt) = 0 THEN nxt ELSE WrapU64(nxt, Tail(bytes))

\* a small decimal as a number (lengths, counts)
RECURSIVE DecToNat(_)
DecToNat(dec) ==
    IF dec = "" THEN 0
    ELSE 10 * DecToNat(SubSeq(dec, 1, Len(dec) - 1)) + DigitVal(CharAt(dec, Len(dec)))

\* usize::to_string
RECURSIVE NatToDec(_)
NatToDec(n) == IF n < 10 THEN DigitChar(n) ELSE NatToDec(n \div 10) \o DigitChar(n % 10)

-----------------------------------------------------------------------------
(* parser.rs: nom parsers of the "complete" flavour.  A parser yields        *)
(* [ok, panic, rem, val]: it never reports "incomplete"; input that ends     *)
(* early is an error like any other.                                         *)

CRLF == "\r\n"
AlnumChars == "0123456789ABCDEFGHIJKLMNOPQRSTUVWXYZabcdefghijklmnopqrstuvwxyz"
CharSet(chars) == {CharAt(chars, i) : i \in 1..Len(chars)}
Alnum == CharSet(AlnumChars)
Digit == CharSet(Digits)
Space == {" ", "\t"}

Take(b, n) == SubSeq(b, 1, n)
Drop(b, n) == SubSeq(b, n + 1, Len(b))
StartsWith(b, p) == Len(b) >= Len(p) /\ Take(b, Len(p)) = p

\* length of the longest prefix of b made of characters of the class
RECURSIVE SpanLen(_, _)
SpanLen(b, class) ==
    IF b = "" THEN 0
    ELSE IF Head(b) \notin class THEN 0
    ELSE 1 + SpanLen(Tail(b), class)

\* position of the first CRLF in b at or after position i, 0 when there is
\* none (take_until)
RECURSIVE FindFrom(_, _)
FindFrom(b, i) ==
    IF i >= Len(b) THEN 0
    ELSE IF SubSeq(b, i, i + 1) = CRLF THEN i
    ELSE FindFrom(b, i + 1)

FindCRLF(b) == FindFrom(b, 1)

PErr == [ok |-> FALSE, panic |-> FALSE, rem |-> "", val |-> Null]
PPanic == [ok |-> FALSE, panic |-> TRUE, rem |-> "", val |-> Null]
POk(rem, val) == [ok |-> TRUE, panic |-> FALSE, rem |-> rem, val |-> val]

\* read_integer_ascii: sum of digit * 10u64.pow(position) in u64.  It
\* overflows when 10^position or the sum leaves the 64 bits.
read_integer_ascii(bytes) ==
    LET overflow == Len(bytes) >= 21 \/ ~MagLeq(StripZeros(bytes), U64Max)
    IN  [overflow |-> overflow,
         dec |-> IF overflow THEN WrapU64("0", bytes) ELSE StripZeros(bytes)]

\* read_positive_decimal: digit1, then read_integer_ascii; val is the u64
\* as decimal text
PositiveDecimal(rem, int) ==
    IF int.overflow /\ overflow_checks THEN PPanic ELSE POk(rem, int.dec)

read_positive_decimal(bytes) ==
    LET n == SpanLen(bytes, Digit)
    IN  IF n = 0 THEN PErr
        ELSE PositiveDecimal(Drop(bytes, n), read_integer_ascii(Take(bytes, n)))

\* int as i64, for a u64 given as decimal text
U64AsI64(dec) ==
    IF MagLeq(dec, I64Max) THEN [neg |-> FALSE, mag |-> dec]
    ELSE [neg |-> TRUE, mag |-> MagSub(TwoTo64, dec)]

\* read_decimal: opt('-') then read_positive_decimal; -(int as i64)
\* overflows for i64::MIN.  val is the i64 as [neg, mag].
Negated(rem, i) ==
    IF i.neg /\ i.mag = I64MinMag
    THEN (IF overflow_checks THEN PPanic ELSE POk(rem, i))
    ELSE POk(rem, [neg |-> ~i.neg /\ i.mag # "0", mag |-> i.mag])

Signed(minus, p) ==
    IF ~p.ok THEN p
    ELSE IF minus THEN Negated(p.rem, U64AsI64(p.val))
    ELSE POk(p.rem, U64AsI64(p.val))

read_decimal(bytes) ==
    Signed(StartsWith(bytes, "-"),
           read_positive_decimal(IF StartsWith(bytes, "-") THEN Drop(bytes, 1) ELSE bytes))

\* preceded(char(c), terminated(number, crlf)); d is what number returns
\* for the bytes after c
Header(bytes, c, d) ==
    IF ~StartsWith(bytes, c) THEN PErr
    ELSE IF ~d.ok THEN d
    ELSE IF ~StartsWith(d.rem, CRLF) THEN PErr
    ELSE POk(Drop(d.rem, 2), d.val)

\* the largest buffer the model holds is far below this many digits
SmallDigits == 9

\* read_bulk (supports null)
BulkBody(rem, us) ==
    IF Len(rem) < us THEN PErr
    ELSE IF ~StartsWith(Drop(rem, us), CRLF) THEN PErr
    ELSE POk(Drop(rem, us + 2), BulkString(Take(rem, us)))

Bulk(h) ==
    IF ~h.ok THEN h
    ELSE IF ~h.val.neg /\ h.val.mag # "0"
    THEN IF Len(h.val.mag) > SmallDigits THEN PErr
         ELSE BulkBody(h.rem, DecToNat(h.val.mag))
    ELSE POk(h.rem, Null)

read_bulk(bytes) == Bulk(Header(bytes, "$", read_decimal(Drop(bytes, 1))))

\* read_simple
read_simple(bytes) ==
    IF ~StartsWith(bytes, "+") THEN PErr
    ELSE LET body == Drop(bytes, 1)
             at   == FindCRLF(body)
         IN  IF at = 0 THEN PErr
             ELSE POk(Drop(body, at + 1), SimpleString(Take(body, at - 1)))

\* read_error: the description runs up to the CRLF, which is not consumed
read_error(bytes) ==
    IF ~StartsWith(bytes, "-") THEN PErr
    ELSE LET body == Drop(bytes, 1)
             n    == SpanLen(body, Alnum)
             sp   == SpanLen(Drop(body, n), Space)
             desc == Drop(body, n + sp)
             at   == FindCRLF(desc)
         IN  IF n = 0 \/ sp = 0 \/ at = 0 THEN PErr
             ELSE POk(Drop(desc, at - 1), Error(Take(body, n), Take(desc, at - 1)))

\* read_integer
IntegerFrame(h) ==
    IF ~h.ok THEN h ELSE POk(h.rem, Integer(I64ToString(h.val.neg, h.val.mag)))

read_integer(bytes) == IntegerFrame(Header(bytes, ":", read_decimal(Drop(bytes, 1))))

\* alt: a parser's result stands unless it is an error, and then the next
\* parser is tried; a panic ends the attempt
OrElse(first, second) == IF first.ok \/ first.panic THEN first ELSE second

\* read_primitive
read_primitive(bytes) ==
    OrElse(read_integer(bytes),
    OrElse(read_simple(bytes),
    OrElse(read_bulk(bytes), read_error(bytes))))

\* count(read_primitive, n)
RECURSIVE count_primitive(_, _, _)
CountNext(e, n, acc) ==
    IF ~e.ok THEN e ELSE count_primitive(e.rem, n - 1, Append(acc, e.val))

count_primitive(bytes, n, acc) ==
    IF n = 0 THEN POk(bytes, acc) ELSE CountNext(read_primitive(bytes), n, acc)

\* a Vec<RESP> of more than this many digits of elements is above
\* isize::MAX bytes: Vec::with_capacity panics with "capacity overflow"
CapacityDigits == 18

\* read_array.  count(read_primitive, size) starts with
\* Vec::with_capacity(size).  For a count of more than SmallDigits digits
\* the allocator either refuses (the task aborts) or hands out untouched
\* memory, and then count fails because the buffer holds fewer elements.
ArrayFrame(c) == IF ~c.ok THEN c ELSE POk(c.rem, Array(c.val))

ArrayBody(h) ==
    IF ~h.ok THEN h
    ELSE IF Len(h.val) > CapacityDigits THEN PPanic
    ELSE IF Len(h.val) > SmallDigits THEN (IF alloc_fails THEN PPanic ELSE PErr)
    ELSE ArrayFrame(count_primitive(h.rem, DecToNat(h.val), <<>>))

read_array(bytes) == ArrayBody(Header(bytes, "*", read_positive_decimal(Drop(bytes, 1))))

\* separated_list1(space1, alphanumeric1): [n, rem, val], n = 0 on error
RECURSIVE separated_list1(_, _)
separated_list1(bytes, acc) ==
    LET n == SpanLen(bytes, Alnum)
    IN  IF n = 0 THEN [ok |-> FALSE, rem |-> bytes, val |-> acc]
        ELSE LET rest == Drop(bytes, n)
                 sp   == SpanLen(rest, Space)
                 more == separated_list1(Drop(rest, sp), Append(acc, SimpleString(Take(bytes, n))))
             IN  IF sp = 0 \/ ~more.ok
                 THEN [ok |-> TRUE, rem |-> rest, val |-> Append(acc, SimpleString(Take(bytes, n)))]
                 ELSE more

\* read_inline_commands
read_inline_commands(bytes) ==
    LET l == separated_list1(bytes, <<>>)
    IN  IF ~l.ok \/ ~StartsWith(l.rem, CRLF) THEN PErr
        ELSE POk(Drop(l.rem, 2), Array(l.val))

\* parser::read
read(bytes) ==
    OrElse(read_array(bytes),
    OrElse(read_inline_commands(bytes),
    OrElse(read_integer(bytes),
    OrElse(read_simple(bytes),
    OrElse(read_bulk(bytes), read_error(bytes))))))

-----------------------------------------------------------------------------
(* protocol.rs: the encoder *)

NULL_MSG == "$-1\r\n"

\* the bytes RESP::write_async writes for a frame
RECURSIVE encode(_)
encode(f) ==
    LET RECURSIVE all(_)
        all(v) == IF v = <<>> THEN "" ELSE encode(Head(v)) \o all(Tail(v))
    IN  CASE f.tag = "SimpleString" -> "+" \o f.s \o CRLF
          [] f.tag = "Error"        -> "-" \o f.kind \o f.s \o CRLF
          [] f.tag = "Integer"      -> ":" \o f.s \o CRLF
          [] f.tag = "BulkString"   -> "$" \o NatToDec(Len(f.s)) \o CRLF \o f.s \o CRLF
          [] f.tag = "Array"        -> "*" \o NatToDec(Len(f.elems)) \o CRLF \o all(f.elems)
          [] OTHER                  -> NULL_MSG

\* writer.write_all(b) on a BufWriter w = [buf, out, flushes]
Buffered(w, b) == [w EXCEPT !.buf = w.buf \o b]

\* writer.flush()
Flushed(w) == [buf |-> "", out |-> w.out \o w.buf, flushes |-> w.flushes + 1]

RECURSIVE write_async(_, _, _)

\* elements written with the flush flag set
RECURSIVE write_elems_flushing(_, _)
write_elems_flushing(w, elems) ==
    IF elems = <<>> THEN w
    ELSE write_elems_flushing(write_async(w, Head(elems), TRUE), Tail(elems))

\* for el in vec.drain(0..vec.len()) { el.write_async(writer, false) }
RECURSIVE write_elems(_, _)
write_elems(w, elems) ==
    IF elems = <<>> THEN w
    ELSE write_elems(write_async(w, Head(elems), FALSE), Tail(elems))

\* the match of RESP::write_async: what the arm of the frame writes
Written(w, f) ==
    IF f.tag = "Array"
    THEN write_elems(Buffered(w, "*" \o NatToDec(Len(f.elems)) \o CRLF), f.elems)
    ELSE Buffered(w, encode(f))

\* RESP::write_async
write_async(w, f, flush) == IF flush THEN Flushed(Written(w, f)) ELSE Written(w, f)

-----------------------------------------------------------------------------
(* RedisEngine::start_loop *)

NoReq == [req |-> Pipeline(<<>>), channel |-> 0, origin |-> 0, seq |-> 0]

RxIdle == [state |-> "idle", val |-> Pipeline(<<>>)]
RxPending == [state |-> "pending", val |-> Pipeline(<<>>)]
RxReady(v) == [state |-> "ready", val |-> v]
RxClosed == [state |-> "closed", val |-> Pipeline(<<>>)]

\* The engine task unwinds: the mpsc receiver and every oneshot sender it
\* holds (the one being served, the queued ones) are dropped.
DropSenders(r, q, cur) ==
    [s \in Sessions |->
        IF r[s].state = "pending"
           /\ (cur.channel = s \/ \E i \in 1..Len(q) : q[i].channel = s)
        THEN RxClosed ELSE r[s]]

EnginePanics ==
    /\ eng_pc' = "panicked"
    /\ rx' = DropSenders(rx, queue, eng_cur)
    /\ queue' = <<>>
    /\ eng_cur' = NoReq
    /\ eng_resp' = <<>>
    /\ eng_t' = 0

\* a receive that does not wait for the bundle in hand to be finished: the
\* rest of it goes back to the end of the queue
EngineRecvBetweenCommands ==
    /\ eng_pc \in {"recv", "exec"}
    /\ queue # <<>>
    /\ \E t \in Times : eng_t' = t
    /\ eng_cur' = Head(queue)
    /\ queue' = IF eng_pc = "exec" /\ Len(eng_resp) < Len(eng_cur.req.frames)
                THEN Append(Tail(queue),
                            [eng_cur EXCEPT !.req = Pipeline(SubSeq(eng_cur.req.frames,
                                Len(eng_resp) + 1, Len(eng_cur.req.frames)))])
                ELSE Tail(queue)
    /\ eng_resp' = <<>>
    /\ eng_pc' = "exec"
    /\ UNCHANGED <<data, overflow_checks, executed, rx, session_vars, driver_vars>>

\* self.receiver.recv().await yields Some((req, channel)); t = current_time()
EngineRecv ==
    /\ eng_pc = "recv"
    /\ queue # <<>>
    /\ \E t \in Times : eng_t' = t
    /\ eng_cur' = Head(queue)
    /\ queue' = Tail(queue)
    /\ eng_resp' = <<>>
    /\ eng_pc' = "exec"
    /\ UNCHANGED <<data, overflow_checks, executed, rx, session_vars, driver_vars>>

\* one handle_request call: the Single arm, or one iteration of the for loop
\* of the Pipeline arm
EngineExec ==
    /\ eng_pc = "exec"
    /\ Len(eng_resp) < Len(eng_cur.req.frames)
    /\ LET i == Len(eng_resp) + 1
           r == handle_request(data, eng_cur.req.frames[i], eng_t, overflow_checks)
           entry == [sess |-> eng_cur.origin, seq |-> eng_cur.seq, idx |-> i,
                     req |-> eng_cur.req.frames[i], resp |-> r.resp,
                     panicked |-> r.panic]
       IN  /\ data' = r.data
           /\ executed' = Append(executed, entry)
           /\ IF r.panic
              THEN EnginePanics
              ELSE /\ eng_resp' = Append(eng_resp, r.resp)
                   /\ UNCHANGED <<eng_pc, eng_cur, eng_t, queue, rx>>
    /\ UNCHANGED <<overflow_checks, session_vars, driver_vars>>

\* a reply bundle that is a Pipeline whatever the request was
ReplyAlwaysPipeline(req, rs) == Pipeline(rs)

\* a reply bundle that leaves the Error frames out
ReplyWithoutErrors(req, rs) ==
    IF req.kind = "Single" THEN Single(rs[1])
    ELSE Pipeline(SelectSeq(rs, LAMBDA f : f.tag # "Error"))

\* the reply bundle of start_loop: Single for Single, Pipeline for Pipeline
ReplyBundle(req, rs) ==
    IF req.kind = "Single" THEN Single(rs[1]) ELSE Pipeline(rs)

\* a reply handed to the session that has waited longest by number
ReplySlotFirstWaiting(cur) ==
    IF \E s \in Sessions : rx[s].state = "pending"
    THEN CHOOSE s \in Sessions :
            /\ rx[s].state = "pending"
            /\ \A u \in Sessions : rx[u].state = "pending" => s <= u
    ELSE cur.channel

\* the oneshot sender received together with the request
ReplySlot(cur) == cur.channel

\* channel.send(reply).unwrap(): panics when the receiver is gone
EngineSend ==
    /\ eng_pc = "exec"
    /\ Len(eng_resp) = Len(eng_cur.req.frames)
    /\ IF rx[ReplySlot(eng_cur)].state = "pending"
       THEN /\ rx' = [rx EXCEPT ![ReplySlot(eng_cur)] = RxReady(ReplyBundle(eng_cur.req, eng_resp))]
            /\ eng_pc' = "recv"
            /\ eng_cur' = NoReq
            /\ eng_resp' = <<>>
            /\ eng_t' = 0
            /\ UNCHANGED queue
       ELSE EnginePanics
    /\ UNCHANGED <<data, overflow_checks, executed, session_vars, driver_vars>>

-----------------------------------------------------------------------------
(* Initial state: RedisEngine::new, one RedisCmd::new per accepted stream *)

NoBundle == Pipeline(<<>>)
NoCall == [op |-> "none", k |-> "", v |-> "", evict_at |-> [some |-> FALSE, v |-> 0], t |-> 0,
           res |-> None, panic |-> FALSE]
Writer_new == [buf |-> "", out |-> "", flushes |-> 0]

InitCommon ==
    /\ data = RedisData_new
    /\ overflow_checks \in BOOLEAN
    /\ eng_pc = "recv"
    /\ eng_cur = NoReq
    /\ eng_t = 0
    /\ eng_resp = <<>>
    /\ queue = <<>>
    /\ rx = [s \in Sessions |-> RxIdle]
    /\ pc = [s \in Sessions |-> "parse"]
    /\ sock = [s \in Sessions |-> ""]
    /\ peer_closed = [s \in Sessions |-> FALSE]
    /\ buff = [s \in Sessions |-> ""]
    /\ pipelined_request = [s \in Sessions |-> <<>>]
    /\ command = [s \in Sessions |-> NoBundle]
    /\ resp = [s \in Sessions |-> NoBundle]
    /\ writer = [s \in Sessions |-> Writer_new]
    /\ submitted = [s \in Sessions |-> <<>>]
    /\ wrote = [s \in Sessions |-> <<>>]
    /\ inputs = [s \in Sessions |-> <<>>]
    /\ executed = <<>>
    /\ senders = 1
    /\ call = NoCall

-----------------------------------------------------------------------------
(* The engine alone, driven through RedisEngineApi::request by one caller *)

Cmd1(a) == Array(<<BulkString(a)>>)
Cmd2(a, b) == Array(<<BulkString(a), BulkString(b)>>)
Cmd3(a, b, c) == Array(<<BulkString(a), BulkString(b), BulkString(c)>>)
Cmd4(a, b, c, e) == Array(<<BulkString(a), BulkString(b), BulkString(c), BulkString(e)>>)

Suites == {"strings", "counters", "lists", "errors", "frames"}

SuiteCommands(f) ==
    CASE f = "strings" ->
           {Cmd3("SET", "k", "9"), Cmd3("SET", "k", "abc"), Cmd3("SET", "j", "-1"),
            Cmd2("GET", "k"), Cmd2("GET", "j")}
      [] f = "counters" ->
           {Cmd3("SET", "k", "9"), Cmd3("SET", "k", "-1"), Cmd3("SET", "k", "abc"),
            Cmd3("SET", "k", I64Max), Cmd2("INCR", "k")}
      [] f = "lists" ->
           {Cmd3("LPUSH", "k", "a"), Cmd3("LPUSH", "k", "b"), Cmd3("RPUSH", "k", "a"),
            Cmd3("RPUSH", "k", "b"), Cmd2("LPOP", "k"), Cmd2("RPOP", "k")}
      [] f = "errors" ->
           {Cmd1("FOO"), Cmd3("FOO", "k", "v"), Cmd4("SET", "k", "v", "x"),
            Cmd3("LPUSH", "k", "v")}
      [] f = "frames" ->
           {BulkString("PING"), BulkString("COMMAND"), SimpleString("PING"),
            Array(<<SimpleString("PING")>>), Integer("1"), Null}
      [] f = "lifecycle" ->
           {Cmd1("PING"), Cmd3("SET", "k", "v"), Cmd2("GET", "k"), Cmd3("LPUSH", "k", "a")}
      [] f = "scalars" ->
           {BulkString("PING"), BulkString("COMMAND"), BulkString("FOO"),
            SimpleString("PING"), Integer("1"), Error("ERR", "x"), Null,
            Cmd3("SET", "k", "v")}
      [] OTHER -> {}

\* the commands the caller puts in pipelines
PipeCommands(f) ==
    CASE f = "errors" -> {Array(<<>>), Cmd2("FOO", "k"), Cmd3("SET", "k", "v")}
      [] f = "lifecycle" -> {Cmd3("SET", "k", "v"), Cmd2("GET", "k")}
      [] f = "counters" -> {Cmd3("SET", "k", I64Max), Cmd2("INCR", "k")}
      [] OTHER -> {}

\* a pipeline holds distinct commands
Distinct(q) == \A i \in 1..Len(q) : \A j \in 1..Len(q) : i # j => q[i] # q[j]

SuiteBundles(f) ==
    LET P == PipeCommands(f)
    IN  {Single(c) : c \in SuiteCommands(f)}
        \cup {Pipeline(q) : q \in {x \in IF Cardinality(P) > 2 THEN P \X P \X P ELSE P \X P :
                                        Distinct(x)}}

Driver == 1

\* RedisEngineApi::request: a fresh oneshot pair, the request is sent with
\* its sender, the caller awaits the receiver.
Request(b) ==
    /\ senders > 0
    /\ eng_pc = "recv"
    /\ queue = <<>>
    /\ rx[Driver].state # "pending"
    /\ Len(executed) + Len(b.frames) <= MaxCmds
    /\ queue' = <<[req |-> b, channel |-> Driver, origin |-> Driver,
                  seq |-> Len(submitted[Driver]) + 1]>>
    /\ rx' = [rx EXCEPT ![Driver] = RxPending]
    /\ submitted' = [submitted EXCEPT ![Driver] = Append(@, b)]
    /\ UNCHANGED <<engine_vars, pc, sock, peer_closed, buff, pipelined_request, command,
                   resp, writer, wrote, inputs, driver_vars>>

DriverRequest == \E b \in SuiteBundles(suite) : Request(b)

InitEngine == InitCommon /\ suite \in Suites /\ alloc_fails = TRUE

NextEngine == DriverRequest \/ EngineRecv \/ EngineExec \/ EngineSend

SpecEngine == InitEngine /\ [][NextEngine]_vars

\* the engine, its caller submitting frames that are not arrays
InitScalars == InitCommon /\ suite = "scalars" /\ alloc_fails = TRUE

SpecScalars == InitScalars /\ [][NextEngine]_vars

-----------------------------------------------------------------------------
(* The engine and the life of its channels: the caller is cancelled while *)
(* it waits, the last RedisEngineApi is dropped                            *)

\* a oneshot receiver that was dropped before the reply was sent
RxGone == [state |-> "gone", val |-> NoBundle]

\* the future of RedisEngineApi::request is dropped while it awaits rx
DriverCancel ==
    /\ rx[Driver].state = "pending"
    /\ rx' = [rx EXCEPT ![Driver] = RxGone]
    /\ UNCHANGED <<engine_vars, queue, session_vars, driver_vars>>

\* the last Arc<RedisEngineApi> is dropped, and its mpsc::Sender with it
DriverDrop ==
    /\ senders > 0
    /\ rx[Driver].state # "pending"
    /\ senders' = senders - 1
    /\ UNCHANGED <<engine_vars, queue, rx, session_vars, suite, call, alloc_fails>>

\* self.receiver.recv().await yields None: the channel is closed and empty
EngineRecvNone ==
    /\ eng_pc = "recv"
    /\ queue = <<>>
    /\ senders = 0
    /\ eng_pc' = "warn"
    /\ UNCHANGED <<data, overflow_checks, eng_cur, eng_t, eng_resp, executed, queue, rx,
                   session_vars, driver_vars>>

\* the None arm: warn!("No senders, loop terminated"), and the loop goes round
EngineWarn ==
    /\ eng_pc = "warn"
    /\ eng_pc' = "recv"
    /\ UNCHANGED <<data, overflow_checks, eng_cur, eng_t, eng_resp, executed, queue, rx,
                   session_vars, driver_vars>>

InitLifecycle == InitCommon /\ suite = "lifecycle" /\ alloc_fails = TRUE

EngineStep == EngineRecv \/ EngineExec \/ EngineSend \/ EngineRecvNone \/ EngineWarn

NextLifecycle ==
    \/ DriverRequest
    \/ DriverCancel
    \/ DriverDrop
    \/ EngineRecv
    \/ EngineExec
    \/ EngineSend
    \/ EngineRecvNone
    \/ EngineWarn

SpecLifecycle == InitLifecycle /\ [][NextLifecycle]_vars

\* the engine task is always scheduled again by the runtime
SpecLifecycleLive == SpecLifecycle /\ WF_vars(EngineStep)

-----------------------------------------------------------------------------
(* RedisData driven directly, method by method, with expiry instants: no   *)
(* command of handle_request attaches one                                  *)

DataKeys == {"k", "j"}
DataValues == {"1"}
\* Option<u64>::None
NoInstant == [some |-> FALSE, v |-> 0]
Expiries == {NoInstant} \cup {Some(e) : e \in Times}

\* one call: r is what the method returns, [panic, data, res]
DataCall(op, k, v, e, t, r) ==
    /\ data' = r.data
    /\ call' = [op |-> op, k |-> k, v |-> v, evict_at |-> e, t |-> t,
                res |-> r.res, panic |-> r.panic]
    /\ UNCHANGED <<overflow_checks, eng_pc, eng_cur, eng_t, eng_resp, executed, queue, rx,
                   session_vars, suite, senders, alloc_fails>>

Returned(d, res) == [panic |-> FALSE, data |-> d, res |-> res]
Scanned(e) == [panic |-> e.panic, data |-> e.data, res |-> None]

\* a panic ends the caller: no call follows it
DataSet ==
    /\ ~call.panic
    /\ \E k \in DataKeys : \E v \in DataValues : \E e \in Expiries :
          DataCall("set", k, v, e, 0, Returned(set(data, k, v, e), None))

DataGet ==
    /\ ~call.panic
    /\ \E k \in DataKeys : \E t \in Times :
          DataCall("get", k, "", NoInstant, t, get(data, k, t))

DataIncr ==
    /\ ~call.panic
    /\ \E k \in DataKeys : \E t \in Times :
          DataCall("incr", k, "", NoInstant, t, incr(data, k, t, overflow_checks))

DataLPush ==
    /\ ~call.panic
    /\ \E k \in DataKeys : \E v \in DataValues : \E e \in Expiries :
          /\ Len(ListOf(data, k)) < MaxList
          /\ DataCall("l_push", k, v, e, 0, Returned(l_push(data, k, v, e), None))

DataRPush ==
    /\ ~call.panic
    /\ \E k \in DataKeys : \E v \in DataValues : \E e \in Expiries :
          /\ Len(ListOf(data, k)) < MaxList
          /\ DataCall("r_push", k, v, e, 0, Returned(r_push(data, k, v, e), None))

DataLPop ==
    /\ ~call.panic
    /\ \E k \in DataKeys :
          DataCall("l_pop", k, "", NoInstant, 0,
                   Returned(l_pop(data, k).data, l_pop(data, k).res))

DataRPop ==
    /\ ~call.panic
    /\ \E k \in DataKeys :
          DataCall("r_pop", k, "", NoInstant, 0,
                   Returned(r_pop(data, k).data, r_pop(data, k).res))

DataEvict ==
    /\ ~call.panic
    /\ \E t \in Times :
          DataCall("evict_if_needed", "", "", NoInstant, t,
                   Scanned(evict_if_needed(data, t)))

InitData == InitCommon /\ suite = "data" /\ alloc_fails = TRUE

NextData ==
    \/ DataSet
    \/ DataGet
    \/ DataIncr
    \/ DataLPush
    \/ DataRPush
    \/ DataLPop
    \/ DataRPop
    \/ DataEvict

SpecData == InitData /\ [][NextData]_vars

-----------------------------------------------------------------------------
(* protocol.rs: RedisCmd, and types.rs: ClientConnection::start_loop *)

\* RedisCmd::parse_frame: [kind, buff, frame].  parser::read is made of
\* complete parsers, so the arm Err(nom::Err::Incomplete) is never taken.
Parsed(b, r) ==
    IF r.panic THEN [kind |-> "panic", buff |-> b, frame |-> Null]
    ELSE IF r.ok THEN [kind |-> "frame", buff |-> r.rem, frame |-> r.val]
    ELSE [kind |-> "err", buff |-> b, frame |-> Null]

parse_frame(b) == Parsed(b, read(b))

\* RedisCmd::fill_output_pipeline_req (the accumulator is left empty)
fill_output_pipeline_req(acc) ==
    IF Len(acc) = 1 THEN Single(acc[1]) ELSE Pipeline(acc)

\* one iteration of the loop of RedisCmd::read_async, up to the socket read
ReadStep(s, r) ==
    IF r.kind = "panic"
    THEN /\ pc' = [pc EXCEPT ![s] = "panicked"]
         /\ UNCHANGED <<buff, pipelined_request, command>>
    ELSE IF r.kind = "frame"
    THEN /\ buff' = [buff EXCEPT ![s] = r.buff]
         /\ pipelined_request' = [pipelined_request EXCEPT ![s] = Append(@, r.frame)]
         /\ UNCHANGED <<pc, command>>
    ELSE IF Len(pipelined_request[s]) > 0
    THEN /\ command' = [command EXCEPT ![s] = fill_output_pipeline_req(pipelined_request[s])]
         /\ pipelined_request' = [pipelined_request EXCEPT ![s] = <<>>]
         /\ pc' = [pc EXCEPT ![s] = "send"]
         /\ UNCHANGED buff
    ELSE /\ pc' = [pc EXCEPT ![s] = "read"]
         /\ UNCHANGED <<buff, pipelined_request, command>>

ParseFrame(s) ==
    /\ pc[s] = "parse"
    /\ ReadStep(s, parse_frame(buff[s]))
    /\ UNCHANGED <<engine_vars, queue, rx, sock, peer_closed, resp, writer, submitted,
                   wrote, inputs, driver_vars>>

\* self.reader.read_buf(&mut self.buff).await in read_async: n bytes, or 0
\* once the peer has closed
ReadBuf(s) ==
    /\ pc[s] = "read"
    /\ IF sock[s] # ""
       THEN /\ buff' = [buff EXCEPT ![s] = @ \o sock[s]]
            /\ sock' = [sock EXCEPT ![s] = ""]
            /\ pc' = [pc EXCEPT ![s] = "parse"]
            /\ UNCHANGED <<command, pipelined_request>>
       ELSE /\ peer_closed[s]
            /\ command' = [command EXCEPT ![s] = fill_output_pipeline_req(pipelined_request[s])]
            /\ pipelined_request' = [pipelined_request EXCEPT ![s] = <<>>]
            /\ pc' = [pc EXCEPT ![s] = "send"]
            /\ UNCHANGED <<buff, sock>>
    /\ UNCHANGED <<engine_vars, queue, rx, peer_closed, resp, writer, submitted,
                   wrote, inputs, driver_vars>>

\* RedisEngineApi::request, up to the send: self.sender.send((req, tx)).await.unwrap()
Send(s) ==
    /\ pc[s] = "send"
    /\ Len(submitted[s]) < MaxBundles
    /\ IF eng_pc = "panicked"
       THEN /\ pc' = [pc EXCEPT ![s] = "panicked"]
            /\ UNCHANGED <<queue, rx, submitted>>
       ELSE /\ Len(queue) < ChannelCapacity
            /\ queue' = Append(queue, [req |-> command[s], channel |-> s, origin |-> s,
                                       seq |-> Len(submitted[s]) + 1])
            /\ rx' = [rx EXCEPT ![s] = RxPending]
            /\ submitted' = [submitted EXCEPT ![s] = Append(@, command[s])]
            /\ pc' = [pc EXCEPT ![s] = "await"]
    /\ UNCHANGED <<engine_vars, sock, peer_closed, buff, pipelined_request, command, resp,
                   writer, wrote, inputs, driver_vars>>

\* rx.await in RedisEngineApi::request and the match on it in start_loop
Await(s) ==
    /\ pc[s] = "await"
    /\ rx[s].state \in {"ready", "closed"}
    /\ resp' = [resp EXCEPT ![s] = IF rx[s].state = "ready" THEN rx[s].val
                                   ELSE Single(Error("Unexpected", "channel closed"))]
    /\ rx' = [rx EXCEPT ![s] = RxIdle]
    /\ pc' = [pc EXCEPT ![s] = "write"]
    /\ UNCHANGED <<engine_vars, queue, sock, peer_closed, buff, pipelined_request, command,
                   writer, submitted, wrote, inputs, driver_vars>>

\* the reply frames are written in order, flush set on the last one
RECURSIVE write_bundle(_, _)
write_bundle(w, frames) ==
    IF frames = <<>> THEN w
    ELSE write_bundle(write_async(w, Head(frames), Len(frames) = 1), Tail(frames))

\* self.redis_cmd.write_async(resp).await in start_loop
Write(s) ==
    /\ pc[s] = "write"
    /\ writer' = [writer EXCEPT ![s] = write_bundle(@, resp[s].frames)]
    /\ wrote' = [wrote EXCEPT ![s] = @ \o resp[s].frames]
    /\ pc' = [pc EXCEPT ![s] = "parse"]
    /\ UNCHANGED <<engine_vars, queue, rx, sock, peer_closed, buff, pipelined_request,
                   command, resp, submitted, inputs, driver_vars>>

-----------------------------------------------------------------------------
(* The codec alone: RESP::write_async and RedisCmd::parse_frame applied to *)
(* frames and to byte strings                                              *)

I64Min == "-9223372036854775808"

\* well-formed frames of every kind
CodecFrames ==
    {SimpleString("OK"), SimpleString(""), SimpleString("a b"),
     Error("ERR", "unknown command"), Error("WRONG_TYPE", "x"),
     Integer("0"), Integer("7"), Integer("-1"), Integer(I64Max), Integer(I64Min),
     BulkString("abc"), BulkString(""), BulkString("a\r\nb"),
     Null,
     Array(<<>>), Cmd1("PING"), Cmd2("GET", "k"),
     Array(<<Integer("1"), SimpleString("a"), Null>>),
     Array(<<BulkString("")>>),
     Array(<<Error("ERR", "x")>>),
     Array(<<Array(<<>>)>>), Array(<<Cmd1("PING"), Integer("1")>>)}

\* what follows the encoding in the buffer
CodecSuffixes == {"", "bdc", "+OK"}

\* integer frames, bulk lengths and array counts around the 64-bit limits
DecimalInputs ==
    {":9223372036854775807\r\n", ":-9223372036854775808\r\n",
     ":9223372036854775808\r\n", ":-9223372036854775809\r\n",
     ":18446744073709551615\r\n", ":18446744073709551616\r\n",
     ":18446744073709551623\r\n", ":99999999999999999999\r\n",
     ":100000000000000000000\r\n",
     "$9223372036854775808\r\na\r\n", "$18446744073709551617\r\na\r\n",
     "$100000000000000000001\r\na\r\n",
     "*9999999999\r\n:1\r\n",
     "*18446744073709551615\r\n:1\r\n", "*18446744073709551617\r\n:1\r\n",
     "*100000000000000000001\r\n:1\r\n", "*1\r\n:18446744073709551616\r\n"}

CodecCall(op, f, b, sfx, r) ==
    [op |-> op, frame |-> f, bytes |-> b, suffix |-> sfx, r |-> r]

\* RESP::write_async(frame, flush = true) on a fresh writer
CodecEncode ==
    /\ call.op = "none"
    /\ \E f \in CodecFrames : \E sfx \in CodecSuffixes :
          /\ writer' = [writer EXCEPT ![1] = write_async(@, f, TRUE)]
          /\ call' = CodecCall("encode", f, "", sfx, parse_frame(""))
    /\ UNCHANGED <<engine_vars, queue, rx, pc, sock, peer_closed, buff, pipelined_request,
                   command, resp, submitted, wrote, inputs, suite, senders, alloc_fails>>

\* parse_frame on the bytes written, followed by the suffix
CodecDecode ==
    /\ call.op = "encode"
    /\ call' = CodecCall("decode", call.frame, writer[1].out \o call.suffix, call.suffix,
                         parse_frame(writer[1].out \o call.suffix))
    /\ UNCHANGED <<engine_vars, queue, rx, session_vars, suite, senders, alloc_fails>>

\* parse_frame on bytes that hold a decimal number
CodecParse ==
    /\ call.op = "none"
    /\ \E b \in DecimalInputs :
          call' = CodecCall("parse", Null, b, "", parse_frame(b))
    /\ UNCHANGED <<engine_vars, queue, rx, session_vars, suite, senders, alloc_fails>>

\* frames written one after the other, as replies are
BatchFrames ==
    {SimpleString("PONG"), Null, Array(<<Integer("1"), BulkString("a")>>),
     Array(<<Array(<<Integer("1")>>), Null>>)}

\* RedisCmd::write_async(resp, flush), frame after frame on one writer
CodecWrite ==
    /\ call.op \in {"none", "write"}
    /\ Len(wrote[1]) < MaxBatch
    /\ \E f \in BatchFrames : \E flush \in BOOLEAN :
          /\ writer' = [writer EXCEPT ![1] = write_async(@, f, flush)]
          /\ wrote' = [wrote EXCEPT ![1] = Append(@, f)]
          /\ call' = [op |-> "write", frame |-> f, flush |-> flush]
    /\ UNCHANGED <<engine_vars, queue, rx, pc, sock, peer_closed, buff, pipelined_request,
                   command, resp, submitted, inputs, suite, senders, alloc_fails>>

\* the replies of one bundle written to a fresh writer
CodecWriteBundle ==
    /\ call.op = "none"
    /\ \E f \in BatchFrames : \E g \in BatchFrames : \E n \in 1..2 :
          /\ writer' = [writer EXCEPT ![1] = write_bundle(@, SubSeq(<<f, g>>, 1, n))]
          /\ wrote' = [wrote EXCEPT ![1] = SubSeq(<<f, g>>, 1, n)]
          /\ call' = [op |-> "bundle", frames |-> SubSeq(<<f, g>>, 1, n)]
    /\ UNCHANGED <<engine_vars, queue, rx, pc, sock, peer_closed, buff, pipelined_request,
                   command, resp, submitted, inputs, suite, senders, alloc_fails>>

InitCodec == InitCommon /\ suite = "codec" /\ alloc_fails \in BOOLEAN

NextCodec == CodecEncode \/ CodecDecode \/ CodecParse \/ CodecWrite \/ CodecWriteBundle

SpecCodec == InitCodec /\ [][NextCodec]_vars

-----------------------------------------------------------------------------
(* The peers *)

PING_MSG == "*1\r\n$4\r\nPING\r\n"
INLINE_PINGS == "PING\r\nPING\r\nPING\r\n"
SET_MAX_MSG == "*3\r\n$3\r\nSET\r\n$1\r\nk\r\n$19\r\n9223372036854775807\r\n"
SET_MSG == "*3\r\n$3\r\nSET\r\n$1\r\nk\r\n$1\r\n1\r\n"
GET_MSG == "*2\r\n$3\r\nGET\r\n$1\r\nk\r\n"
INCR_MSG == "*2\r\n$4\r\nINCR\r\n$1\r\nk\r\n"

\* what a peer may put on the wire in one write: whole frames, several
\* frames at once, and the two halves of a frame
\* writes that put several whole frames in the buffer at once
BatchMessages ==
    {PING_MSG \o GET_MSG, "*3\r\n$3\r\nSET\r\n$1\r\nk\r\n$0\r\n\r\n" \o PING_MSG, SET_MSG,
     "*2\r\n$3\r\nGET", "\r\n$1\r\nk\r\n"}

PeerMessages ==
    IF suite = "batch" THEN BatchMessages
    ELSE {PING_MSG, INLINE_PINGS, SET_MAX_MSG \o INCR_MSG, SET_MSG \o GET_MSG,
          "*2\r\n$3\r\nGET", "\r\n$1\r\nk\r\n"}

TotalWrites == LET RECURSIVE sum(_)
                   sum(n) == IF n = 0 THEN 0 ELSE Len(inputs[n]) + sum(n - 1)
               IN  sum(NumSessions)

PeerWrite(s) ==
    /\ ~peer_closed[s]
    /\ TotalWrites < MaxWrites
    /\ \E m \in PeerMessages :
          /\ sock' = [sock EXCEPT ![s] = @ \o m]
          /\ inputs' = [inputs EXCEPT ![s] = Append(@, m)]
    /\ UNCHANGED <<engine_vars, queue, rx, pc, peer_closed, buff, pipelined_request,
                   command, resp, writer, submitted, wrote, driver_vars>>

PeerClose(s) ==
    /\ ~peer_closed[s]
    /\ peer_closed' = [peer_closed EXCEPT ![s] = TRUE]
    /\ UNCHANGED <<engine_vars, queue, rx, pc, sock, buff, pipelined_request,
                   command, resp, writer, submitted, wrote, inputs, driver_vars>>

-----------------------------------------------------------------------------
(* The server: the engine task and one task per connection *)

\* no peer message holds an array count the allocator could refuse
Init == InitCommon /\ suite = "wire" /\ alloc_fails = TRUE

Next ==
    \/ EngineRecv
    \/ EngineExec
    \/ EngineSend
    \/ \E s \in Sessions : ParseFrame(s)
    \/ \E s \in Sessions : ReadBuf(s)
    \/ \E s \in Sessions : Send(s)
    \/ \E s \in Sessions : Await(s)
    \/ \E s \in Sessions : Write(s)
    \/ \E s \in Sessions : PeerWrite(s)
    \/ \E s \in Sessions : PeerClose(s)

Spec == Init /\ [][Next]_vars

\* the same server, its peers writing several frames at once
InitBatch == InitCommon /\ suite = "batch" /\ alloc_fails = TRUE

SpecBatch == InitBatch /\ [][Next]_vars

-----------------------------------------------------------------------------
(* Properties *)

IsCmd(req, name, n) ==
    /\ req.tag = "Array"
    /\ Len(req.elems) = n
    /\ AllBulk(req.elems)
    /\ req.elems[1].s = name
Arg(req, i) == req.elems[i].s

Last(q) == q[Len(q)]
MaxOf(S) == CHOOSE x \in S : \A y \in S : y <= x

\* the entries of the history that belong to bundle number q of session s
BundleEntries(s, q) == SelectSeq(executed, LAMBDA e : e.sess = s /\ e.seq = q)

\* positions before i at which SET k was executed
SetsBefore(i, k) ==
    {j \in 1..(i - 1) : IsCmd(executed[j].req, "SET", 3) /\ Arg(executed[j].req, 2) = k}

\* C7: every SET replies OK, and every GET k replies the value of the most
\* recent SET k before it as a BulkString, Null when there was none,
\* whatever was done to other keys in between.
C7_StringStore ==
    \A i \in 1..Len(executed) :
        LET e == executed[i]
        IN  /\ IsCmd(e.req, "SET", 3) => ~e.panicked /\ e.resp = SimpleString("OK")
            /\ IsCmd(e.req, "GET", 2) =>
                  LET sets == SetsBefore(i, Arg(e.req, 2))
                  IN  /\ ~e.panicked
                      /\ e.resp = IF sets = {} THEN Null
                                  ELSE BulkString(Arg(executed[MaxOf(sets)].req, 3))

\* a GET has returned the second of two values SET under its key, and a GET
\* of a key never SET has returned Null
C7_Witness ==
    \E i \in 1..Len(executed) : \E j \in 1..Len(executed) :
        /\ IsCmd(executed[i].req, "GET", 2)
        /\ Cardinality(SetsBefore(i, Arg(executed[i].req, 2))) >= 2
        /\ executed[i].resp = BulkString("abc")
        /\ IsCmd(executed[j].req, "GET", 2)
        /\ executed[j].resp = Null

\* the double-ended queue that the first n commands of the history leave
\* under key k
RECURSIVE Deque(_, _)
Deque(n, k) ==
    IF n = 0 THEN <<>>
    ELSE LET e == executed[n]
             before == Deque(n - 1, k)
         IN  IF e.panicked \/ ~(e.req.tag = "Array" /\ Len(e.req.elems) \in {2, 3}
                                 /\ AllBulk(e.req.elems) /\ Arg(e.req, 2) = k)
             THEN before
             ELSE CASE IsCmd(e.req, "LPUSH", 3) -> <<Arg(e.req, 3)>> \o before
                    [] IsCmd(e.req, "RPUSH", 3) -> before \o <<Arg(e.req, 3)>>
                    [] IsCmd(e.req, "LPOP", 2) /\ before # <<>> -> Tail(before)
                    [] IsCmd(e.req, "RPOP", 2) /\ before # <<>> -> SubSeq(before, 1, Len(before) - 1)
                    [] OTHER -> before

Reqs == [i \in 1..Len(executed) |-> executed[i].req]
Resps == [i \in 1..Len(executed) |-> executed[i].resp]

\* C8: the list store is a double-ended queue per key: pushes reply OK, a
\* pop replies the head (LPOP) or the tail (RPOP) of the queue as a
\* BulkString and Null when it is absent or empty, and the stored list is the
\* queue; LPUSH a, LPUSH b, LPOP, LPOP yields b then a, and RPUSH a, RPUSH b,
\* RPOP, RPOP yields b then a.
C8_ListDeque ==
    /\ \A i \in 1..Len(executed) :
          LET e == executed[i]
              q == Deque(i - 1, Arg(e.req, 2))
          IN  /\ IsCmd(e.req, "LPUSH", 3) \/ IsCmd(e.req, "RPUSH", 3) => e.resp = SimpleString("OK")
              /\ IsCmd(e.req, "LPOP", 2) =>
                    e.resp = IF q = <<>> THEN Null ELSE BulkString(Head(q))
              /\ IsCmd(e.req, "RPOP", 2) =>
                    e.resp = IF q = <<>> THEN Null ELSE BulkString(Last(q))
    /\ \A k \in {"k", "j"} : ListOf(data, k) = Deque(Len(executed), k)
    /\ \A k \in {"k", "j"} : Deque(Len(executed), k) # <<>> => k \in DOMAIN data.list_map
    /\ Reqs = <<Cmd3("LPUSH", "k", "a"), Cmd3("LPUSH", "k", "b"), Cmd2("LPOP", "k"), Cmd2("LPOP", "k")>>
          => Resps = <<ok, ok, BulkString("b"), BulkString("a")>>
    /\ Reqs = <<Cmd3("RPUSH", "k", "a"), Cmd3("RPUSH", "k", "b"), Cmd2("RPOP", "k"), Cmd2("RPOP", "k")>>
          => Resps = <<ok, ok, BulkString("b"), BulkString("a")>>

\* the LPUSH, LPUSH, LPOP, LPOP sequence has run and has emptied the list
C8_Witness ==
    /\ Reqs = <<Cmd3("LPUSH", "k", "a"), Cmd3("LPUSH", "k", "b"), Cmd2("LPOP", "k"), Cmd2("LPOP", "k")>>
    /\ Resps[4] = BulkString("a")
    /\ ListOf(data, "k") = <<>>

\* value + 1 as decimal text, for the text of a value that parses
DecimalSuccessor(b) ==
    LET i == ParseI64(b)
    IN  IF i.neg THEN I64ToString(TRUE, StripZeros(MagSubOne(i.mag)))
        ELSE MagAddOne(i.mag)

\* the value the history says is stored under k after its first n commands
StoredAfter(n, k) ==
    LET sets == SetsBefore(n + 1, k)
    IN  IF sets = {} THEN None ELSE Some(Arg(executed[MaxOf(sets)].req, 3))

\* C9: INCR k replies Null when k is absent, the decimal of value + 1 as a
\* SimpleString when the stored value parses as a signed 64-bit decimal and
\* an Error of kind WRONG_TYPE otherwise; the stored value stays what the
\* last SET made it, and two consecutive INCR k reply the same.
C9_IncrReply ==
    /\ \A i \in 1..Len(executed) :
          LET e == executed[i]
              stored == StoredAfter(i - 1, Arg(e.req, 2))
          IN  IsCmd(e.req, "INCR", 2) =>
                /\ ~e.panicked
                /\ IF ~stored.some THEN e.resp = Null
                   ELSE IF ParseI64(stored.v).ok
                   THEN e.resp = SimpleString(DecimalSuccessor(stored.v))
                   ELSE e.resp.tag = "Error" /\ e.resp.kind = "WRONG_TYPE"
                /\ (i > 1 /\ executed[i - 1].req = e.req) => executed[i - 1].resp = e.resp
    /\ \A k \in {"k", "j"} :
          LET stored == StoredAfter(Len(executed), k)
          IN  IF stored.some
              THEN k \in DOMAIN data.single_map /\ data.single_map[k] = stored.v
              ELSE k \notin DOMAIN data.single_map

\* the commands C10 is about: the empty array, an unknown name at arity 1,
\* 2 or 3, more than three elements
KnownNames(n) ==
    CASE n = 1 -> {"PING", "COMMAND"}
      [] n = 2 -> {"GET", "INCR", "LPOP", "RPOP"}
      [] n = 3 -> {"SET", "LPUSH", "RPUSH"}
      [] OTHER -> {}

IsOffending(req) ==
    /\ req.tag = "Array"
    /\ \/ Len(req.elems) = 0
       \/ Len(req.elems) > 3
       \/ AllBulk(req.elems) /\ req.elems[1].s \notin KnownNames(Len(req.elems))

ClaimedError(req) ==
    IF req.elems = <<>> THEN Error("todo", "empty command")
    ELSE Error("Error", "too many arguments")

ExecStep == Len(executed') = Len(executed) + 1
Delivered(s) == rx[s].state = "pending" /\ rx'[s].state = "ready"

\* C10: the call that handles an offending command returns the claimed
\* Error frame, leaves the string store, the list store and the eviction
\* index as they were, puts the frame at the command's position in the reply
\* under construction and leaves the engine executing; the reply bundle is
\* delivered only after every command of the bundle has been executed, holds
\* the claimed Error frame at the position of each offending command, and
\* the engine goes back to receiving.
C10_ErrorStep ==
    /\ ExecStep /\ IsOffending(Last(executed').req) =>
          LET e == Last(executed')
          IN  /\ e.resp = ClaimedError(e.req)
              /\ ~e.panicked
              /\ data' = data
              /\ eng_resp' = Append(eng_resp, e.resp)
              /\ Len(eng_resp') = e.idx
              /\ eng_pc' = "exec"
              /\ eng_cur' = eng_cur
    /\ \A s \in Sessions : Delivered(s) =>
          LET b == eng_cur.req
              v == rx'[s].val
          IN  /\ Len(v.frames) = Len(b.frames)
              /\ Len(BundleEntries(eng_cur.origin, eng_cur.seq)) = Len(b.frames)
              /\ \A i \in 1..Len(b.frames) :
                    IsOffending(b.frames[i]) => v.frames[i] = ClaimedError(b.frames[i])
              /\ eng_pc' = "recv"

C10_CommandErrors == [][C10_ErrorStep]_vars

\* a pipeline that starts with an empty command and ends with a SET has
\* been answered, its SET has taken effect, and a later bundle has been
\* executed
C10_Witness ==
    /\ Len(submitted[Driver]) >= 2
    /\ submitted[Driver][1].kind = "Pipeline"
    /\ submitted[Driver][1].frames[1] = Array(<<>>)
    /\ Last(submitted[Driver][1].frames) = Cmd3("SET", "k", "v")
    /\ "k" \in DOMAIN data.single_map
    /\ \E i \in 1..Len(executed) : executed[i].seq = 2 /\ IsOffending(executed[i].req)
    /\ rx[Driver].state = "ready"

\* C3: a delivered reply bundle is Single for a Single request and Pipeline
\* for a Pipeline request, has as many frames as the request, and its i-th
\* frame is what handle_request returned for the i-th frame of the request.
C3_ReplyMirrorsRequest ==
    \A s \in Sessions :
        rx[s].state = "ready" =>
            LET q  == Len(submitted[s])
                b  == submitted[s][q]
                v  == rx[s].val
                es == BundleEntries(s, q)
            IN  /\ v.kind = b.kind
                /\ Len(v.frames) = Len(b.frames)
                /\ Len(es) = Len(b.frames)
                /\ \A i \in 1..Len(b.frames) :
                      /\ es[i].idx = i
                      /\ es[i].req = b.frames[i]
                      /\ es[i].resp = v.frames[i]

\* a Pipeline of three has been answered with an Error frame next to a
\* frame that is no Error, after a Single was answered
C3_Witness ==
    /\ rx[Driver].state = "ready"
    /\ rx[Driver].val.kind = "Pipeline"
    /\ Len(rx[Driver].val.frames) = 3
    /\ \E i \in 1..3 : rx[Driver].val.frames[i].tag = "Error"
    /\ \E i \in 1..3 : rx[Driver].val.frames[i].tag # "Error"
    /\ Len(submitted[Driver]) = 2
    /\ submitted[Driver][1].kind = "Single"

-----------------------------------------------------------------------------
(* Properties of the server *)

SameBundle(e, f) == e.sess = f.sess /\ e.seq = f.seq

\* C1: the commands of one bundle are executed consecutively: between two
\* executed commands of the same bundle every executed command is of that
\* bundle, in the order of the bundle, and while the engine is inside a
\* bundle the commands executed last are the ones of that bundle.
C1_PipelineAtomicity ==
    /\ \A i \in 1..Len(executed) : \A j \in i..Len(executed) :
          SameBundle(executed[i], executed[j]) =>
              \A m \in i..j : /\ SameBundle(executed[i], executed[m])
                               /\ executed[m].idx = executed[i].idx + (m - i)
    /\ eng_pc = "exec" =>
          \A i \in 1..Len(eng_resp) :
              LET e == executed[Len(executed) - Len(eng_resp) + i]
              IN  /\ e.sess = eng_cur.origin
                  /\ e.seq = eng_cur.seq
                  /\ e.idx = i

\* the engine is between the first and the second command of a pipeline
\* while a bundle of the other session waits in the queue
C1_Witness ==
    /\ eng_pc = "exec"
    /\ eng_cur.req.kind = "Pipeline"
    /\ Len(eng_cur.req.frames) = 2
    /\ Len(eng_resp) = 1
    /\ queue # <<>>
    /\ Head(queue).origin # eng_cur.origin
    /\ Head(queue).req.frames # <<>>

RECURSIVE Flat(_)
Flat(bundles) ==
    IF bundles = <<>> THEN <<>> ELSE Head(bundles).frames \o Flat(Tail(bundles))

EntriesOf(s) == SelectSeq(executed, LAMBDA e : e.sess = s)

\* C2: the reply frames written to a connection are, position by position,
\* the engine's answers to the request frames the connection submitted:
\* the i-th frame written is what the engine returned for the i-th request
\* frame.
C2_PerConnectionFifo ==
    \A s \in Sessions :
        LET reqs == Flat(submitted[s])
            es   == EntriesOf(s)
        IN  \A i \in 1..Len(wrote[s]) :
                /\ i <= Len(es)
                /\ es[i].req = reqs[i]
                /\ ~es[i].panicked
                /\ wrote[s][i] = es[i].resp

\* C4: a session only receives the reply computed from its own bundle: a
\* reply waiting in a session's slot, and a reply the session took from it,
\* holds the frames the engine returned for the commands of the bundle the
\* session sent last.
C4_ReplyRouting ==
    \A s \in Sessions :
        LET q  == Len(submitted[s])
            es == BundleEntries(s, q)
            Own(v) == /\ v.kind = submitted[s][q].kind
                      /\ [i \in 1..Len(es) |-> es[i].req] = submitted[s][q].frames
                      /\ [i \in 1..Len(es) |-> es[i].resp] = v.frames
        IN  /\ rx[s].state = "ready" => Own(rx[s].val)
            /\ (pc[s] = "write" /\ resp[s] # Single(Error("Unexpected", "channel closed")))
                  => Own(resp[s])

\* a session has its reply in its slot while the other session, whose
\* bundle is another one, still waits for its own
C4_Witness ==
    \E s \in Sessions : \E u \in Sessions :
        /\ s # u
        /\ rx[s].state = "ready"
        /\ rx[s].val.frames # <<>>
        /\ rx[u].state = "pending"
        /\ Last(submitted[u]) # Last(submitted[s])
        /\ Last(submitted[u]).frames # <<>>

RECURSIVE ConcatAll(_)
ConcatAll(q) == IF q = <<>> THEN "" ELSE Head(q) \o ConcatAll(Tail(q))

\* the frames parse_frame takes off the front of b, one after the other
RECURSIVE DecodeAll(_)
DecodeRest(b, r) ==
    IF r.kind = "frame" /\ Len(r.buff) < Len(b)
    THEN <<r.frame>> \o DecodeAll(r.buff)
    ELSE <<>>

DecodeAll(b) == DecodeRest(b, parse_frame(b))

\* the bytes of the peer that the session has turned into frames
Consumed(s) ==
    LET all == ConcatAll(inputs[s])
    IN  Take(all, Len(all) - Len(buff[s]) - Len(sock[s]))

\* C5: a bundle returned by the read phase is Single when one frame was
\* accumulated and Pipeline only when more than one was; a Pipeline is not
\* empty, the frames are in the order the peer sent them, and the
\* accumulator is empty once the bundle is taken.
C5_WellShapedBundle ==
    \A s \in Sessions :
        pc[s] = "send" =>
            /\ command[s].kind = "Single" => Len(command[s].frames) = 1
            /\ command[s].kind = "Pipeline" => Len(command[s].frames) > 1
            /\ pipelined_request[s] = <<>>
            /\ Flat(submitted[s]) \o command[s].frames = DecodeAll(Consumed(s))

PONG == SimpleString("PONG")

\* C6: a connection whose peer wrote PING\r\nPING\r\nPING\r\n in one
\* write submits one Pipeline of three command frames, the engine answers
\* each of them SimpleString("PONG"), and the connection emits +PONG\r\n
\* three times.
C6_InlinePings ==
    \A s \in Sessions :
        (inputs[s] = <<INLINE_PINGS>> /\ submitted[s] # <<>>) =>
            /\ submitted[s][1].kind = "Pipeline"
            /\ Len(submitted[s][1].frames) = 3
            /\ \A i \in 1..Len(executed) :
                  (executed[i].sess = s /\ executed[i].seq = 1) => executed[i].resp = PONG
            /\ (rx[s].state = "ready" /\ Len(submitted[s]) = 1)
                  => rx[s].val = Pipeline(<<PONG, PONG, PONG>>)
            /\ wrote[s] # <<>> =>
                  writer[s].out = "+PONG\r\n+PONG\r\n+PONG\r\n"

-----------------------------------------------------------------------------
(* Termination of the connection loop *)

\* bytes no frame starts with: parser::read fails on them whatever follows
NoFrameStart(b) ==
    Len(b) > 0 /\ CharAt(b, 1) \notin ({"*", "$", "+", "-", ":"} \cup Alnum)

\* C11: a session whose read buffer holds bytes that are not a valid frame
\* terminates with an error; it does not wait for more bytes and returns
\* no bundle, whatever the buffer and the accumulator hold.
C11_FatalStopsSession ==
    \A s \in Sessions :
        NoFrameStart(buff[s]) => pc[s] \notin {"read", "send", "await", "write"}

\* the session is at the socket read, the peer has closed and nothing is
\* left to read: read_buf returns 0
EndOfStream(s) ==
    /\ pc[s] = "read"
    /\ sock[s] = ""
    /\ peer_closed[s]
    /\ pipelined_request[s] = <<>>

\* C12: once the socket read returns 0 bytes with the accumulator empty,
\* the session terminates cleanly; the read phase hands no further bundle
\* over for dispatch to the engine.
C12_CleanEndOfStream ==
    [][\A s \in Sessions : EndOfStream(s) => pc'[s] \notin {"send", "await"}]_vars

-----------------------------------------------------------------------------
(* Termination of the engine loop *)

\* the request channel is closed and drained
ChannelClosed == senders = 0 /\ queue = <<>>

\* C13: when the request channel is closed (every sender dropped), the
\* engine loop eventually exits: it does not go on polling the closed
\* channel.
C13_EngineExitsOnClose ==
    ChannelClosed ~> (eng_pc \notin {"recv", "exec", "warn"})

\* the engine has the whole reply of a bundle whose receiver was dropped
ReplyUndeliverable ==
    /\ eng_pc = "exec"
    /\ Len(eng_resp) = Len(eng_cur.req.frames)
    /\ rx[ReplySlot(eng_cur)].state = "gone"

\* C14: a reply whose receiver is gone is a logged, non-fatal event: the
\* engine does not stop at the failed delivery, it goes on to receive.
C14_DeliveryFailureNotFatal ==
    [][ReplyUndeliverable => eng_pc' # "panicked"]_vars

-----------------------------------------------------------------------------
(* Eviction *)

\* the instants below t at which key k has an entry in the index of d
ExpiriesBelow(d, k, t) == {e \in DOMAIN d.eviction : e < t /\ k \in d.eviction[e]}

\* C15: immediately after evict_if_needed(t), no key that had an index
\* entry at an instant below t is left in the string store and no index
\* entry below t is left, also when the expiry was attached below the
\* watermark.
C15_ScanStep ==
    (call'.op = "evict_if_needed" /\ ~call'.panic) =>
        /\ \A k \in DataKeys :
              ExpiriesBelow(data, k, call'.t) # {} => k \notin DOMAIN data'.single_map
        /\ \A e \in DOMAIN data'.eviction : e >= call'.t

C15_ScanPostcondition == [][C15_ScanStep]_vars

\* C16: a scan at t <= last_scanned completes normally and leaves the
\* string store, the index and the watermark as they were; the watermark
\* never decreases.
C16_ScanStep ==
    /\ (call'.op = "evict_if_needed" /\ call'.t <= data.last_evicted_t) =>
          (~call'.panic /\ data' = data)
    /\ data'.last_evicted_t >= data.last_evicted_t

C16_MonotonicScan == [][C16_ScanStep]_vars

\* C17: get and incr scan at their t before the lookup, so they return no
\* value for a key with an index entry below t; the other methods leave
\* the watermark as it was.
C17_ReadStep ==
    /\ (call'.op \in {"get", "incr"} /\ ExpiriesBelow(data, call'.k, call'.t) # {}) =>
          ~call'.res.some
    /\ call'.op \in {"set", "l_push", "r_push", "l_pop", "r_pop"} =>
          data'.last_evicted_t = data.last_evicted_t

C17_NoExpiredValue == [][C17_ReadStep]_vars

\* the keys with an index entry at or above the watermark
Scheduled(d) ==
    UNION {d.eviction[e] : e \in {x \in DOMAIN d.eviction : x >= d.last_evicted_t}}

\* C18: every key is in at most one of the string store, the list store
\* and the index entries at or above the watermark.
C18_KeySpaceExclusive ==
    \A k \in DataKeys :
        /\ ~(k \in DOMAIN data.single_map /\ k \in DOMAIN data.list_map)
        /\ ~(k \in DOMAIN data.single_map /\ k \in Scheduled(data))
        /\ ~(k \in DOMAIN data.list_map /\ k \in Scheduled(data))

-----------------------------------------------------------------------------
(* The codec *)

\* C19: decoding the bytes the encoder produces for a well-formed frame
\* yields that frame, and what followed the encoding is returned as the
\* unconsumed suffix (nothing, when nothing followed).
C19_RoundTrip ==
    call.op = "decode" =>
        /\ call.r.kind = "frame"
        /\ call.r.frame = call.frame
        /\ call.r.buff = call.suffix

\* the inputs whose number fits its target: i64 for an integer frame and
\* a bulk length, u64 for an array count
FittingInputs ==
    {":9223372036854775807\r\n", ":-9223372036854775808\r\n",
     "*9999999999\r\n:1\r\n", "*18446744073709551615\r\n:1\r\n"}

\* C20: a digit string whose value does not fit the 64-bit target makes
\* the decoder report an error; it returns no frame (carrying a wrapped or
\* sign-flipped value) and does not abort.
C20_NoWrap ==
    (call.op = "parse" /\ call.bytes \notin FittingInputs) => call.r.kind = "err"

-----------------------------------------------------------------------------
(* Flushing *)

\* the bytes of the frames of q, one frame after the other
RECURSIVE EncodeAll(_)
EncodeAll(q) == IF q = <<>> THEN "" ELSE encode(Head(q)) \o EncodeAll(Tail(q))

\* one frame written: with flush = false nothing reaches the wire and no
\* flush happens; with flush = true there is one flush, after the last
\* byte of the frame, nested elements included
FrameWriteStep ==
    call'.op = "write" =>
        IF call'.flush
        THEN /\ writer'[1].flushes = writer[1].flushes + 1
             /\ writer'[1].buf = ""
             /\ writer'[1].out = writer[1].out \o writer[1].buf \o encode(call'.frame)
        ELSE /\ writer'[1].flushes = writer[1].flushes
             /\ writer'[1].out = writer[1].out
             /\ writer'[1].buf = writer[1].buf \o encode(call'.frame)

\* the replies of one bundle written: one flush, and it comes after the
\* last byte of the last frame
BundleWriteStep ==
    call'.op = "bundle" =>
        /\ writer'[1].flushes = writer[1].flushes + 1
        /\ writer'[1].buf = ""
        /\ writer'[1].out = writer[1].out \o EncodeAll(call'.frames)

-----------------------------------------------------------------------------
(* Opportunistic pipelining *)

\* the command frames the peers of BatchMessages put on the wire
WireFrames == {Cmd1("PING"), Cmd2("GET", "k"), Cmd3("SET", "k", "1"), Cmd3("SET", "k", "")}

IsPrefix(p, b) == Len(p) <= Len(b) /\ SubSeq(b, 1, Len(p)) = p

\* the number of whole frames at the front of b, by the wire format of
\* RESP::write_async
RECURSIVE CompleteFrames(_)
CompleteFrames(b) ==
    IF \E f \in WireFrames : IsPrefix(encode(f), b)
    THEN LET f == CHOOSE g \in WireFrames : IsPrefix(encode(g), b)
         IN  1 + CompleteFrames(SubSeq(b, Len(encode(f)) + 1, Len(b)))
    ELSE 0

\* the bytes the session has read from its socket so far
Received(s) ==
    LET all == ConcatAll(inputs[s])
    IN  Take(all, Len(all) - Len(sock[s]))

\* C22: the session never reads from the socket while the accumulator is
\* non-empty, and when the read phase returns a bundle every complete
\* frame that was in the buffer is in it: the frames bundled so far are
\* as many as the complete frames received so far.
C22_OpportunisticPipelining ==
    \A s \in Sessions :
        /\ pc[s] = "read" => pipelined_request[s] = <<>>
        /\ pc[s] = "send" =>
              Len(Flat(submitted[s])) + Len(command[s].frames) = CompleteFrames(Received(s))

-----------------------------------------------------------------------------
(* The decoder step *)

\* C23: a parse_frame attempt that produces no frame leaves the read
\* buffer byte for byte as it was; a successful attempt on a buffer that
\* starts with the bytes of a frame removes exactly those bytes and keeps
\* what followed them.
C23_NoPartialProgress ==
    /\ (call.op \in {"decode", "parse"} /\ call.r.kind = "err") => call.r.buff = call.bytes
    /\ (call.op = "decode" /\ call.r.kind = "frame") => call.r.buff = call.suffix

\* the same, for what parse_frame itself decides: the buffer it leaves is
\* the buffer it found, or a proper suffix of it when a frame came out
BufferKept ==
    call.op \in {"decode", "parse"} =>
        /\ call.r.kind = "err" => call.r.buff = call.bytes
        /\ call.r.kind = "frame" =>
              /\ Len(call.r.buff) < Len(call.bytes)
              /\ Drop(call.bytes, Len(call.bytes) - Len(call.r.buff)) = call.r.buff

-----------------------------------------------------------------------------
(* Frames that are not arrays *)

\* the reply to a one-element command: PING, COMMAND, or anything else
SingleElementReply(f) ==
    IF f.tag = "BulkString" /\ f.s = "PING" THEN SimpleString("PONG")
    ELSE IF f.tag = "BulkString" /\ f.s = "COMMAND" THEN SimpleString("OK")
    ELSE error_resp

C24_ScalarStep ==
    (ExecStep /\ Last(executed').req.tag # "Array") =>
        LET e == Last(executed')
            w == handle_array(data, <<e.req>>, eng_t, overflow_checks)
        IN  /\ ~e.panicked
            /\ e.resp = w.resp
            /\ data' = w.data
            /\ e.resp = SingleElementReply(e.req)
            /\ data' = data
            /\ eng_resp' = Append(eng_resp, e.resp)

\* C24: a frame that is not an array is handled as the one-element array
\* that holds it: the call returns, with the reply and the store that
\* handling the array gives, which is the reply of the one-element rule
\* (PING, COMMAND, anything else) and the store as it was.
C24_ScalarAsSingleton == [][C24_ScalarStep]_vars

\* with a key in the string store, a bulk string PING was answered PONG
\* and an Error frame and a Null were answered with the error reply
C24_Witness ==
    /\ "k" \in DOMAIN data.single_map
    /\ \E i \in 1..Len(executed) :
          /\ executed[i].req = BulkString("PING")
          /\ executed[i].resp = SimpleString("PONG")
          /\ i > 1
    /\ \E i \in 1..Len(executed) :
          executed[i].req = Error("ERR", "x") /\ executed[i].resp = error_resp
    /\ \E i \in 1..Len(executed) :
          executed[i].req = Null /\ executed[i].resp = error_resp

-----------------------------------------------------------------------------
(* INCR at the largest value *)

\* C25: INCR of a key that holds 9223372036854775807 is answered with an
\* Error frame of kind WRONG_TYPE: the call returns, the reply is not a
\* wrapped negative number, and the engine goes on serving.
C25_IncrOverflowNonFatal ==
    \A i \in 1..Len(executed) :
        LET e == executed[i]
            stored == StoredAfter(i - 1, Arg(e.req, 2))
        IN  (IsCmd(e.req, "INCR", 2) /\ stored = Some(I64Max)) =>
                /\ ~e.panicked
                /\ e.resp.tag = "Error"
                /\ e.resp.kind = "WRONG_TYPE"
                /\ eng_pc # "panicked"

\* the same, for what the two builds do instead: with overflow checks the
\* call panics and the engine ends, without them the reply is the wrapped
\* number
IncrOverflowOutcome ==
    \A i \in 1..Len(executed) :
        LET e == executed[i]
            stored == StoredAfter(i - 1, Arg(e.req, 2))
        IN  (IsCmd(e.req, "INCR", 2) /\ stored = Some(I64Max)) =>
                IF overflow_checks
                THEN e.panicked /\ eng_pc = "panicked"
                ELSE ~e.panicked /\ e.resp = SimpleString(I64Min)

=============================================================================
